---- MODULE Spec2Model ----
(***************************************************************************)
(* Model of the sprite auto-fix pipeline (autofix.js): multi-layer         *)
(* anomaly detection, bad-frame replacement, bottom-center stabilization   *)
(* and the final verification pass.                                        *)
(*                                                                         *)
(* Conventions.                                                            *)
(*  - Arrays are functions on 0..n-1, so that indices are the code's.      *)
(*  - Ratios, SSIM scores and thresholds are fixed-point numbers in        *)
(*    thousandths (0.35 is 350); every comparison of the code is done on   *)
(*    cross-multiplied integers, so no rounding is introduced.             *)
(*  - What the codec collaborator measures on the encoded buffers (colour  *)
(*    counts, alpha ratios, adjacent SSIM scores and pixel-diff ratios) is *)
(*    an input of the detector, drawn from bounded sets.                   *)
(***************************************************************************)
EXTENDS Integers, Sequences, FiniteSets, TLC

VARIABLES
    pc,       \* position of the running function
    input,    \* frameBuffers as the caller passed them
    opts,     \* the options object
    meas,     \* what decoding and analysing the frames yields
    anoms,    \* frameAnomalies: index -> list of anomalies
    det,      \* detectionResult {badFrames, methodsUsed}
    frames,   \* the working copy `frames`
    report,   \* the report under construction
    result,   \* the value returned to the caller
    steps,    \* the steps run so far, in order
    tasks,    \* the state of each per-frame analysis task
    analysis, \* frameAnalysis: the slots Promise.all has filled so far
    medianStats \* the reference statistics computed from frameAnalysis

vars == <<pc, input, opts, meas, anoms, det, frames, report, result, steps,
          tasks, analysis, medianStats>>

----------------------------------------------------------------------------
(* Helpers: arrays, sorting, nearest-rank selection *)

Min2(a, b) == IF a < b THEN a ELSE b
Max2(a, b) == IF a > b THEN a ELSE b

RECURSIVE MinOf(_)
MinOf(S) == LET x == CHOOSE y \in S : TRUE
            IN IF Cardinality(S) = 1 THEN x ELSE Min2(x, MinOf(S \ {x}))

RECURSIVE MaxOf(_)
MaxOf(S) == LET x == CHOOSE y \in S : TRUE
            IN IF Cardinality(S) = 1 THEN x ELSE Max2(x, MaxOf(S \ {x}))

\* an array (function on 0..n-1) as a sequence
ToSeq(f, n) == [i \in 1..n |-> f[i - 1]]

\* [...arr].sort((a, b) => a - b)
SortAsc(s) == SortSeq(s, LAMBDA a, b : a < b)

\* sorted[k], k counted from 0
At(s, k) == s[k + 1]

\* sorted[Math.floor(sorted.length / 2)]
getMedian(arr) == At(SortAsc(arr), Len(arr) \div 2)

\* a quartile interpolated between the two elements around (length - 1) * 0.25
LowerQuartileInterpolated(arr) ==
    LET sorted == SortAsc(arr)
        lo     == (Len(arr) - 1) \div 4
        rem    == (Len(arr) - 1) % 4
    IN IF rem = 0 THEN At(sorted, lo)
       ELSE (At(sorted, lo) * (4 - rem) + At(sorted, lo + 1) * rem) \div 4

\* sorted[Math.floor(sorted.length * 0.25)]
LowerQuartile(arr) == At(SortAsc(arr), Len(arr) \div 4)

\* sorted[Math.floor(sorted.length * 0.75)]
UpperQuartile(arr) == At(SortAsc(arr), (3 * Len(arr)) \div 4)

----------------------------------------------------------------------------
(* Options *)

DefaultOptions ==
    [colorRatioThreshold  |-> 350,
     opacityIQRMultiplier |-> 2500,
     ssimThreshold        |-> 550,
     pixelDiffThreshold   |-> 150]

OptionNames == DOMAIN DefaultOptions

\* the destructuring of `options` with defaults: a key the caller gave wins,
\* a key autoFix does not name is ignored
EffectiveOptions(o) ==
    [k \in OptionNames |-> IF k \in DOMAIN o THEN o[k] ELSE DefaultOptions[k]]

----------------------------------------------------------------------------
(* Detection: reference statistics *)

Channels == <<"darkGreen", "brown", "darkPixels">>

calculateMedianStats(fa, n) ==
    [medians |->
        [darkGreen      |-> getMedian(ToSeq([i \in 0..n-1 |-> fa[i].colors.darkGreen], n)),
         brown          |-> getMedian(ToSeq([i \in 0..n-1 |-> fa[i].colors.brown], n)),
         darkPixels     |-> getMedian(ToSeq([i \in 0..n-1 |-> fa[i].colors.darkPixels], n)),
         opaqueRatio    |-> getMedian(ToSeq([i \in 0..n-1 |-> fa[i].alpha.opaqueRatio], n)),
         semiTransRatio |-> getMedian(ToSeq([i \in 0..n-1 |-> fa[i].alpha.semiTransRatio], n))]]

Anomaly(t, ch, sev) == [type |-> t, channel |-> ch, severity |-> sev]

Sev(isSevere) == IF isSevere THEN "severe" ELSE "moderate"

\* frameAnomalies.get(i) || []
Got(map, i) == IF i \in DOMAIN map THEN map[i] ELSE << >>

\* the map after each index i has had add[i] pushed onto its list
\* a method's findings take the place of what was recorded for the frame
PushedOverwrites(map, add, n) ==
    [i \in {j \in 0..n-1 : j \in DOMAIN map \/ add[j] # << >>} |->
        IF add[i] # << >> THEN add[i] ELSE map[i]]

Pushed(map, add, n) ==
    [i \in {j \in 0..n-1 : j \in DOMAIN map \/ add[j] # << >>} |-> Got(map, i) \o add[i]]

HasType(list, t) == \E k \in 1..Len(list) : list[k].type = t

----------------------------------------------------------------------------
(* Method 1: colour histogram *)

PresenceFloor == 50
PrimaryPresenceFloor == 100
SevereColorRatio == 200

\* the presence floor is applied to the frame's own count, not to the median
ColorLossFloorOnFrame(frame, stats, thr, ch) ==
    LET medianCount == stats.medians[ch]
        frameCount  == frame.colors[ch]
    IN IF frameCount > PresenceFloor /\ frameCount * 1000 < thr * medianCount
       THEN << Anomaly("color_loss", ch,
                       Sev(frameCount * 1000 < SevereColorRatio * medianCount)) >>
       ELSE << >>

\* a ratio equal to the threshold counts as below it
ColorLossInclusive(frame, stats, thr, ch) ==
    LET medianCount == stats.medians[ch]
        frameCount  == frame.colors[ch]
    IN IF medianCount > PresenceFloor /\ frameCount * 1000 <= thr * medianCount
       THEN << Anomaly("color_loss", ch,
                       Sev(frameCount * 1000 < SevereColorRatio * medianCount)) >>
       ELSE << >>

ColorLoss(frame, stats, thr, ch) ==
    LET medianCount == stats.medians[ch]
        frameCount  == frame.colors[ch]
    IN IF medianCount > PresenceFloor /\ frameCount * 1000 < thr * medianCount
       THEN << Anomaly("color_loss", ch,
                       Sev(frameCount * 1000 < SevereColorRatio * medianCount)) >>
       ELSE << >>

\* the special green check without its look for an existing darkGreen record
GreenWashoutUnguarded(frame, stats, thr, found) ==
    LET medianCount == stats.medians.darkGreen
        frameCount  == frame.colors.darkGreen
    IN IF medianCount > PrimaryPresenceFloor /\ frameCount * 1000 < thr * medianCount
       THEN << Anomaly("green_washout", "none",
                       Sev(frameCount * 1000 < SevereColorRatio * medianCount)) >>
       ELSE << >>

GreenWashout(frame, stats, thr, found) ==
    LET medianCount == stats.medians.darkGreen
        frameCount  == frame.colors.darkGreen
    IN IF /\ medianCount > PrimaryPresenceFloor
          /\ frameCount * 1000 < thr * medianCount
          /\ ~ \E k \in 1..Len(found) : found[k].channel = "darkGreen"
       THEN << Anomaly("green_washout", "none",
                       Sev(frameCount * 1000 < SevereColorRatio * medianCount)) >>
       ELSE << >>

HistogramAnomalies(frame, stats, thr) ==
    LET found == ColorLoss(frame, stats, thr, Channels[1])
                 \o ColorLoss(frame, stats, thr, Channels[2])
                 \o ColorLoss(frame, stats, thr, Channels[3])
    IN found \o GreenWashout(frame, stats, thr, found)

\* frameAnomalies after the loop of Method 1 (the map starts empty)
Method1(fa, n, stats, o) ==
    LET add == [i \in 0..n-1 |-> HistogramAnomalies(fa[i], stats, o.colorRatioThreshold)]
    IN Pushed(<< >>, add, n)

----------------------------------------------------------------------------
(* Method 2: alpha channel, IQR bounds and halo *)

HaloMargin == 80
SevereHaloMargin == 150

\* a frame on a bound is taken for an outlier
OpacityAnomalyInclusive(frame, fa, n, stats, k) ==
    LET vals  == ToSeq([i \in 0..n-1 |-> fa[i].alpha.opaqueRatio], n)
        q1    == LowerQuartile(vals)
        q3    == UpperQuartile(vals)
        iqr   == q3 - q1
        lower == 1000 * q1 - k * iqr
        upper == 1000 * q3 + k * iqr
        r     == frame.alpha.opaqueRatio
    IN IF 1000 * r <= lower \/ 1000 * r >= upper
       THEN << Anomaly(IF r < stats.medians.opaqueRatio
                       THEN "transparency_hole" ELSE "extra_opacity",
                       "none",
                       Sev(1000 * r < lower - 1000 * iqr)) >>
       ELSE << >>

OpacityAnomaly(frame, fa, n, stats, k) ==
    LET vals  == ToSeq([i \in 0..n-1 |-> fa[i].alpha.opaqueRatio], n)
        q1    == LowerQuartile(vals)
        q3    == UpperQuartile(vals)
        iqr   == q3 - q1
        \* the bounds times 1000 (the multiplier k is in thousandths)
        lower == 1000 * q1 - k * iqr
        upper == 1000 * q3 + k * iqr
        r     == frame.alpha.opaqueRatio
    IN IF 1000 * r < lower \/ 1000 * r > upper
       THEN << Anomaly(IF r < stats.medians.opaqueRatio
                       THEN "transparency_hole" ELSE "extra_opacity",
                       "none",
                       Sev(1000 * r < lower - 1000 * iqr)) >>
       ELSE << >>

HaloAnomaly(frame, fa, n) ==
    LET vals == ToSeq([i \in 0..n-1 |-> fa[i].alpha.semiTransRatio], n)
        semiTransQ3   == UpperQuartile(vals)
        semiTransDiff == frame.alpha.semiTransRatio - semiTransQ3
    IN IF semiTransDiff > HaloMargin
       THEN << Anomaly("halo_effect", "none", Sev(semiTransDiff > SevereHaloMargin)) >>
       ELSE << >>

Method2(map, fa, n, stats, o) ==
    LET add == [i \in 0..n-1 |->
                  OpacityAnomaly(fa[i], fa, n, stats, o.opacityIQRMultiplier)
                  \o HaloAnomaly(fa[i], fa, n)]
    IN Pushed(map, add, n)

----------------------------------------------------------------------------
(* Method 3: structural similarity of adjacent frames *)

SSIMStrictness == 3
SevereSSIM == 400

\* the threshold is measured from the middle score, not from the lower quartile
ssimOutlierThresholdFromMiddle(scores, n) ==
    LET s      == ToSeq(scores, n - 1)
        middle == At(SortAsc(s), Len(s) \div 2)
        ssimQ3 == UpperQuartile(s)
    IN middle - SSIMStrictness * (ssimQ3 - middle)

ssimOutlierThreshold(scores, n) ==
    LET s      == ToSeq(scores, n - 1)
        ssimQ1 == LowerQuartile(s)
        ssimQ3 == UpperQuartile(s)
    IN ssimQ1 - SSIMStrictness * (ssimQ3 - ssimQ1)

\* one low neighbour is taken for enough
eitherLow(ssimToPrev, ssimToNext, thr) == ssimToPrev < thr \/ ssimToNext < thr

bothLow(ssimToPrev, ssimToNext, thr) == ssimToPrev < thr /\ ssimToNext < thr

StructuralAnomaly(i, scores, n, ssimThreshold) ==
    LET ssimToPrev == scores[i - 1]
        ssimToNext == scores[i]
        veryLow    == Min2(ssimToPrev, ssimToNext) < ssimThreshold
    IN IF bothLow(ssimToPrev, ssimToNext, ssimOutlierThreshold(scores, n)) /\ veryLow
       THEN << Anomaly("structural_damage", "none",
                       Sev(Min2(ssimToPrev, ssimToNext) < SevereSSIM)) >>
       ELSE << >>

Method3(map, scores, n, o) ==
    LET add == [i \in 0..n-1 |->
                  IF 1 <= i /\ i < n - 1
                  THEN StructuralAnomaly(i, scores, n, o.ssimThreshold)
                  ELSE << >>]
    IN Pushed(map, add, n)

----------------------------------------------------------------------------
(* Method 4: pixel-difference outliers *)

\* the outlier check without its look for a structural_damage record
PixelOutlierDoubleCounts(i, map, diffs, n, pixelDiffThreshold) ==
    LET medianDiff == getMedian(ToSeq(diffs, n - 1))
        twiceBound == Max2(5 * medianDiff, 2 * pixelDiffThreshold)
        twiceAvg   == diffs[i - 1] + diffs[i]
    IN IF twiceAvg > twiceBound
       THEN << Anomaly("pixel_outlier", "none", Sev(twiceAvg > 8 * medianDiff)) >>
       ELSE << >>

\* avgDiff > Math.max(medianDiff * 2.5, pixelDiffThreshold), both sides doubled
PixelOutlier(i, map, diffs, n, pixelDiffThreshold) ==
    LET medianDiff == getMedian(ToSeq(diffs, n - 1))
        twiceBound == Max2(5 * medianDiff, 2 * pixelDiffThreshold)
        twiceAvg   == diffs[i - 1] + diffs[i]
    IN IF twiceAvg > twiceBound /\ ~ HasType(Got(map, i), "structural_damage")
       THEN << Anomaly("pixel_outlier", "none", Sev(twiceAvg > 8 * medianDiff)) >>
       ELSE << >>

Method4(map, diffs, n, o) ==
    LET add == [i \in 0..n-1 |->
                  IF 1 <= i /\ i < n - 1
                  THEN PixelOutlier(i, map, diffs, n, o.pixelDiffThreshold)
                  ELSE << >>]
    IN Pushed(map, add, n)

----------------------------------------------------------------------------
(* Replacement resolver and the final bad-frame list *)

\* the loop `for (let dist = 2; dist < numFrames; dist++)`: the earlier index is
\* tried before the later one at each distance; `fallback` is what `replacement`
\* holds when the loop ends without a break
RECURSIVE SearchOutward(_, _, _, _, _)
SearchOutward(index, badIndices, numFrames, dist, fallback) ==
    IF dist >= numFrames THEN fallback
    ELSE IF index - dist >= 0 /\ (index - dist) \notin badIndices THEN index - dist
    ELSE IF index + dist < numFrames /\ (index + dist) \notin badIndices THEN index + dist
    ELSE SearchOutward(index, badIndices, numFrames, dist + 1, fallback)

\* a resolver that takes the successor without asking whether it is bad
FindReplacementUnchecked(index, badIndices, numFrames) ==
    IF index > 0 /\ (index - 1) \notin badIndices THEN index - 1
    ELSE IF index < numFrames - 1 THEN index + 1
    ELSE SearchOutward(index, badIndices, numFrames, 2, index - 1)

\* a resolver that prefers the frame after to the frame before
FindReplacementLaterFirst(index, badIndices, numFrames) ==
    LET initial == IF index > 0 THEN index - 1 ELSE index + 1
    IN IF index < numFrames - 1 /\ (index + 1) \notin badIndices THEN index + 1
       ELSE IF index > 0 /\ (index - 1) \notin badIndices THEN index - 1
       ELSE SearchOutward(index, badIndices, numFrames, 2, initial)

FindReplacement(index, badIndices, numFrames) ==
    LET initial == IF index > 0 THEN index - 1 ELSE index + 1
    IN IF index > 0 /\ (index - 1) \notin badIndices THEN index - 1
       ELSE IF index < numFrames - 1 /\ (index + 1) \notin badIndices THEN index + 1
       ELSE SearchOutward(index, badIndices, numFrames, 2, initial)

\* the record takes the severity of its first reason
BadFrameRecordFirstReason(index, reasons, badIndices, numFrames) ==
    [index       |-> index,
     reasons     |-> reasons,
     replacement |-> FindReplacement(index, badIndices, numFrames),
     severity    |-> reasons[1].severity]

BadFrameRecord(index, reasons, badIndices, numFrames) ==
    [index       |-> index,
     reasons     |-> reasons,
     replacement |-> FindReplacement(index, badIndices, numFrames),
     severity    |-> Sev(\E k \in 1..Len(reasons) : reasons[k].severity = "severe")]

\* the indices of S in increasing order: badFrames.sort((a, b) => a.index - b.index)
RECURSIVE Ascending(_)
Ascending(S) == IF S = {} THEN << >>
                ELSE LET m == MinOf(S) IN << m >> \o Ascending(S \ {m})

BuildBadFrames(map, numFrames) ==
    LET badIndices == DOMAIN map
        order      == Ascending(badIndices)
    IN [k \in 1..Len(order) |->
          BadFrameRecord(order[k], map[order[k]], badIndices, numFrames)]

MethodNames == <<"color_histogram", "alpha_analysis", "structural_similarity", "pixel_outlier">>

NoDetection == [badFrames |-> << >>, methodsUsed |-> << >>]

\* a guard that lets two frames through to the statistics
TooFewBelowTwo(numFrames) == numFrames < 2

\* if (numFrames < 3)
TooFew(numFrames) == numFrames < 3

\* detectBadFrames on the measurements m of the frames, with options o
detectBadFrames(m, o) ==
    LET n == m.numFrames IN
    IF TooFew(n) THEN NoDetection
    ELSE LET stats == calculateMedianStats(m.frameAnalysis, n)
             a1 == Method1(m.frameAnalysis, n, stats, o)
             a2 == Method2(a1, m.frameAnalysis, n, stats, o)
             a3 == Method3(a2, m.adjacentSSIM, n, o)
             a4 == Method4(a3, m.consecutiveDiffs, n, o)
         IN [badFrames |-> BuildBadFrames(a4, n), methodsUsed |-> MethodNames]

----------------------------------------------------------------------------
(* Measurements: what decoding and analysing the frames yields *)

Analysis(dg, br, dk, op, st) ==
    [colors |-> [darkGreen |-> dg, brown |-> br, darkPixels |-> dk],
     alpha  |-> [opaqueRatio |-> op, semiTransRatio |-> st]]

Measured(n, fa, ss, df) ==
    [numFrames |-> n, frameAnalysis |-> fa, adjacentSSIM |-> ss, consecutiveDiffs |-> df]

\* an unremarkable frame and an unremarkable pair of adjacent frames
Typical == Analysis(100, 100, 100, 500, 0)
Steady(n, v) == [i \in 0..n-2 |-> v]

MaxFrames == 5
MaxSSIMFrames == 9

\* colour counts (darkGreen, brown, darkPixels) of a frame
ColorProfiles == {<<100, 100, 100>>, <<10, 100, 100>>, <<100, 30, 100>>, <<100, 100, 10>>}
\* (opaqueRatio, semiTransRatio) of a frame
AlphaProfiles == {<<500, 0>>, <<100, 0>>, <<900, 0>>, <<500, 200>>}
SSIMScores == {100, 600, 900}
DiffRatios == {0, 100, 600}
\* the darkGreen count common to all frames but one
CommonCounts == {50, 60, 200, 1000}
ColorThresholds == {350, 100, 50}

\* the options a caller sets for Method 2: none, or a multiplier of 1 or of 0
AlphaOptions == {<< >>, [opacityIQRMultiplier |-> 1000], [opacityIQRMultiplier |-> 0]}

\* sequences of any length whose colour counts vary
HistInputs ==
    \E n \in 0..MaxFrames : \E c \in [0..n-1 -> ColorProfiles] :
        meas = Measured(n, [i \in 0..n-1 |-> Analysis(c[i][1], c[i][2], c[i][3], 500, 0)],
                        Steady(n, 900), Steady(n, 50))

\* frames identical except one whose darkGreen count is a tenth of the common one
TenthInputs ==
    \E n \in 3..MaxFrames : \E j \in 0..n-1, c \in CommonCounts :
        meas = Measured(n, [i \in 0..n-1 |->
                               Analysis(IF i = j THEN c \div 10 ELSE c, 100, 100, 500, 0)],
                        Steady(n, 1000), Steady(n, 0))

AlphaInputs ==
    \E n \in 3..MaxFrames : \E a \in [0..n-1 -> AlphaProfiles] :
        meas = Measured(n, [i \in 0..n-1 |-> Analysis(100, 100, 100, a[i][1], a[i][2])],
                        Steady(n, 900), Steady(n, 50))

StructureInputs ==
    \E n \in 3..MaxSSIMFrames : \E ss \in [0..n-2 -> SSIMScores] :
        meas = Measured(n, [i \in 0..n-1 |-> Typical], ss, Steady(n, 50))

DiffInputs ==
    \E n \in 3..MaxFrames : \E df \in [0..n-2 -> DiffRatios] :
        meas = Measured(n, [i \in 0..n-1 |-> Typical], Steady(n, 900), df)

\* the options a caller sets for Method 4: none, or a floor of 0.30
DiffOptions == {<< >>, [pixelDiffThreshold |-> 300]}

\* nine frames and more with several defects: both SSIM scores of frame j are
\* low, the two pixel differences of frame p are large, and frame q, which is j
\* or p, has lost brown and most of its opaque pixels
MixedInputs ==
    \E n \in 9..MaxSSIMFrames : \E j \in 1..n-2, p \in 1..n-2 : \E q \in {j, p} :
        meas = Measured(n, [i \in 0..n-1 |->
                               IF i = q THEN Analysis(100, 30, 100, 100, 0) ELSE Typical],
                        [k \in 0..n-2 |-> IF k \in {j - 1, j} THEN 100 ELSE 900],
                        [k \in 0..n-2 |-> IF k \in {p - 1, p} THEN 600 ELSE 50])

----------------------------------------------------------------------------
(* SpecDetect: detectBadFrames, one method at a time *)

Idle == << >>

InitDetect ==
    /\ \/ HistInputs /\ opts = << >>
       \/ TenthInputs /\ opts \in {[colorRatioThreshold |-> t] : t \in ColorThresholds}
       \/ AlphaInputs /\ opts \in AlphaOptions
       \/ StructureInputs /\ opts = << >>
       \/ DiffInputs /\ opts \in DiffOptions
       \/ MixedInputs /\ opts = << >>
    /\ pc = "detect"
    /\ anoms = << >>
    /\ det = NoDetection
    /\ input = Idle /\ frames = Idle /\ report = Idle /\ result = Idle /\ steps = << >>
    /\ tasks = Idle /\ analysis = Idle /\ medianStats = Idle

DetectKeeps == UNCHANGED <<input, opts, meas, frames, report, result, tasks, analysis, medianStats>>

\* if (numFrames < 3) return { badFrames: [], methodsUsed: [] }
DetectTooFew ==
    /\ pc = "detect" /\ TooFew(meas.numFrames)
    /\ pc' = "detected"
    /\ det' = NoDetection
    /\ steps' = Append(steps, "skip")
    /\ UNCHANGED anoms /\ DetectKeeps

RunMethod1 ==
    /\ pc = "detect" /\ ~ TooFew(meas.numFrames)
    /\ anoms' = Method1(meas.frameAnalysis, meas.numFrames,
                        calculateMedianStats(meas.frameAnalysis, meas.numFrames),
                        EffectiveOptions(opts))
    /\ det' = [det EXCEPT !.methodsUsed = Append(@, MethodNames[1])]
    /\ pc' = "method2"
    /\ steps' = Append(steps, "method1")
    /\ DetectKeeps

RunMethod2 ==
    /\ pc = "method2"
    /\ anoms' = Method2(anoms, meas.frameAnalysis, meas.numFrames,
                        calculateMedianStats(meas.frameAnalysis, meas.numFrames),
                        EffectiveOptions(opts))
    /\ det' = [det EXCEPT !.methodsUsed = Append(@, MethodNames[2])]
    /\ pc' = "method3"
    /\ steps' = Append(steps, "method2")
    /\ DetectKeeps

RunMethod3 ==
    /\ pc = "method3"
    /\ anoms' = Method3(anoms, meas.adjacentSSIM, meas.numFrames, EffectiveOptions(opts))
    /\ det' = [det EXCEPT !.methodsUsed = Append(@, MethodNames[3])]
    /\ pc' = "method4"
    /\ steps' = Append(steps, "method3")
    /\ DetectKeeps

RunMethod4 ==
    /\ pc = "method4"
    /\ anoms' = Method4(anoms, meas.consecutiveDiffs, meas.numFrames, EffectiveOptions(opts))
    /\ det' = [det EXCEPT !.methodsUsed = Append(@, MethodNames[4])]
    /\ pc' = "resolve"
    /\ steps' = Append(steps, "method4")
    /\ DetectKeeps

ResolveReplacements ==
    /\ pc = "resolve"
    /\ det' = [det EXCEPT !.badFrames = BuildBadFrames(anoms, meas.numFrames)]
    /\ pc' = "detected"
    /\ steps' = Append(steps, "resolve")
    /\ UNCHANGED anoms /\ DetectKeeps

NextDetect ==
    \/ DetectTooFew
    \/ RunMethod1
    \/ RunMethod2
    \/ RunMethod3
    \/ RunMethod4
    \/ ResolveReplacements

SpecDetect == InitDetect /\ [][NextDetect]_vars

\* the stepwise run returns what detectBadFrames returns
DetectAgrees == pc = "detected" => det = detectBadFrames(meas, EffectiveOptions(opts))

----------------------------------------------------------------------------
(* SpecAnalyze: the per-frame tasks of detectBadFrames and the statistics   *)
(* that follow them.  frameBuffers.map starts one async task per frame, in  *)
(* index order and without yielding; each task awaits the decoding of its   *)
(* frame, which runs off the main thread, and on its completion analyses    *)
(* the pixels and resolves; Promise.all puts the value of task i in slot i  *)
(* and resolves when every task has, or rejects as soon as one does.        *)

MaxTasks == 4

NoStats == [pending |-> TRUE]

\* colour counts (darkGreen, brown, darkPixels) the analysis of a frame yields
TaskProfiles == {<<100, 100, 100>>, <<10, 100, 100>>, <<100, 30, 100>>}

InitAnalyze ==
    /\ \E n \in 3..MaxTasks : \E c \in [0..n-1 -> TaskProfiles] :
          /\ meas = Measured(n, [i \in 0..n-1 |-> Analysis(c[i][1], c[i][2], c[i][3], 500, 0)],
                             Steady(n, 900), Steady(n, 50))
          /\ tasks = [i \in 0..n-1 |-> "pending"]
    /\ pc = "map"
    /\ analysis = << >>
    /\ medianStats = NoStats
    /\ steps = << >>
    /\ opts = << >> /\ anoms = << >> /\ det = NoDetection
    /\ input = Idle /\ frames = Idle /\ report = Idle /\ result = Idle

AnalyzeKeeps == UNCHANGED <<input, opts, meas, anoms, det, frames, report, result>>

\* frameBuffers.map(async (buf, idx) => ...): the next task runs up to its await
StartTask ==
    /\ pc = "map"
    /\ \E i \in DOMAIN tasks :
          /\ tasks[i] = "pending"
          /\ \A j \in DOMAIN tasks : j < i => tasks[j] # "pending"
          /\ tasks' = [tasks EXCEPT ![i] = "decoding"]
          /\ pc' = IF i = meas.numFrames - 1 THEN "await" ELSE "map"
    /\ UNCHANGED <<analysis, medianStats, steps>> /\ AnalyzeKeeps

\* the decoding of frame i is over: the task analyses the pixels and resolves,
\* and its value goes into slot i
CompleteTask ==
    /\ pc = "await"
    /\ \E i \in DOMAIN tasks :
          /\ tasks[i] = "decoding"
          /\ tasks' = [tasks EXCEPT ![i] = "done"]
          /\ analysis' = (i :> meas.frameAnalysis[i]) @@ analysis
          /\ steps' = Append(steps, i)
    /\ UNCHANGED <<pc, medianStats>> /\ AnalyzeKeeps

\* the decoding of frame i fails: Promise.all rejects and detectBadFrames with it
FailTask ==
    /\ pc = "await"
    /\ \E i \in DOMAIN tasks :
          /\ tasks[i] = "decoding"
          /\ tasks' = [tasks EXCEPT ![i] = "failed"]
    /\ pc' = "threw"
    /\ UNCHANGED <<analysis, medianStats, steps>> /\ AnalyzeKeeps

\* a combinator that resolves with the first task to do so
AnySettled(t) == \E i \in DOMAIN t : t[i] = "done"

\* Promise.all resolves
AllSettled(t) == \A i \in DOMAIN t : t[i] = "done"

\* the filled slots as an array
Resolved(slots) ==
    LET order == Ascending(DOMAIN slots)
    IN [k \in 0..Len(order) - 1 |-> slots[order[k + 1]]]

\* const stats = calculateMedianStats(frameAnalysis)
Aggregate ==
    /\ pc = "await"
    /\ AllSettled(tasks)
    /\ medianStats' = calculateMedianStats(Resolved(analysis), Cardinality(DOMAIN analysis))
    /\ pc' = "aggregated"
    /\ UNCHANGED <<tasks, analysis, steps>> /\ AnalyzeKeeps

NextAnalyze ==
    \/ StartTask
    \/ CompleteTask
    \/ FailTask
    \/ Aggregate

SpecAnalyze == InitAnalyze /\ [][NextAnalyze]_vars

----------------------------------------------------------------------------
(* Images.  A decoded frame is its width, its height and its pixels; the    *)
(* pixels are kept as disjoint blocks [x, y, w, h, a] of equal pixels with  *)
(* alpha a > 0 (a single pixel is a 1 x 1 block), every pixel outside the   *)
(* blocks being fully transparent.  Pixels are black, so a pixel is known   *)
(* by its alpha.                                                            *)

Block(x, y, w, h, a) == [x |-> x, y |-> y, w |-> w, h |-> h, a |-> a]
Image(width, height, px) == [width |-> width, height |-> height, px |-> px]

\* the length of an array
Count(arr) == Cardinality(DOMAIN arr)

RECURSIVE SumOver(_, _)
SumOver(S, f) ==
    IF S = {} THEN 0
    ELSE LET x == CHOOSE y \in S : TRUE IN f[x] + SumOver(S \ {x}, f)

ALPHA_THRESHOLD == 20
CanvasMargin == 40

\* the two loops of findContentBounds: minX starts at width and maxX at 0, and
\* every pixel with alpha above the threshold lowers the one and raises the other
\* the box is one column and one row larger than the content
findContentBoundsWide(img) ==
    LET content == {b \in img.px : b.a > ALPHA_THRESHOLD}
        minX == MinOf({img.width} \cup {b.x : b \in content})
        maxX == MaxOf({0} \cup {b.x + b.w - 1 : b \in content})
        minY == MinOf({img.height} \cup {b.y : b \in content})
        maxY == MaxOf({0} \cup {b.y + b.h - 1 : b \in content})
    IN IF minX > maxX \/ minY > maxY
       THEN [x |-> 0, y |-> 0, width |-> img.width, height |-> img.height]
       ELSE [x |-> minX, y |-> minY, width |-> maxX - minX + 2, height |-> maxY - minY + 2]

findContentBounds(img) ==
    LET content == {b \in img.px : b.a > ALPHA_THRESHOLD}
        minX == MinOf({img.width} \cup {b.x : b \in content})
        maxX == MaxOf({0} \cup {b.x + b.w - 1 : b \in content})
        minY == MinOf({img.height} \cup {b.y : b \in content})
        maxY == MaxOf({0} \cup {b.y + b.h - 1 : b \in content})
    IN IF minX > maxX \/ minY > maxY
       THEN [x |-> 0, y |-> 0, width |-> img.width, height |-> img.height]
       ELSE [x |-> minX, y |-> minY, width |-> maxX - minX + 1, height |-> maxY - minY + 1]

\* sharp(buf).extract({left, top, width, height}): the pixels inside the
\* rectangle, with the rectangle's corner as the new origin
extract(img, r) ==
    LET inside == {b \in img.px :
                      /\ b.x < r.x + r.width /\ b.x + b.w > r.x
                      /\ b.y < r.y + r.height /\ b.y + b.h > r.y}
        clip(b) ==
            LET x0 == Max2(b.x, r.x)
                y0 == Max2(b.y, r.y)
                x1 == Min2(b.x + b.w, r.x + r.width)
                y1 == Min2(b.y + b.h, r.y + r.height)
            IN Block(x0 - r.x, y0 - r.y, x1 - x0, y1 - y0, b.a)
    IN Image(r.width, r.height, {clip(b) : b \in inside})

\* sharp({create: transparent canvas}).composite([{input, left, top}])
composite(canvasWidth, canvasHeight, content, left, top) ==
    Image(canvasWidth, canvasHeight,
          {Block(b.x + left, b.y + top, b.w, b.h, b.a) : b \in content.px})

\* a canvas with half the margin
CanvasSizeHalfMargin(maxContentWidth, maxContentHeight) ==
    [width |-> maxContentWidth + 20, height |-> maxContentHeight + 20]

CanvasSize(maxContentWidth, maxContentHeight) ==
    [width  |-> maxContentWidth + CanvasMargin,
     height |-> maxContentHeight + CanvasMargin]

\* content centred on both axes instead of standing on the bottom edge
PlacementCentred(canvas, bounds) ==
    [left |-> (canvas.width - bounds.width) \div 2,
     top  |-> (canvas.height - bounds.height) \div 2]

Placement(canvas, bounds) ==
    [left |-> (canvas.width - bounds.width) \div 2,
     top  |-> canvas.height - bounds.height]

\* every frame is put on a canvas sized after its own content
stabilizeFramesOwnCanvas(frameBuffers) ==
    [i \in DOMAIN frameBuffers |->
        LET bounds  == findContentBounds(frameBuffers[i])
            canvas  == CanvasSize(bounds.width, bounds.height)
            content == extract(frameBuffers[i], bounds)
            at      == Placement(canvas, bounds)
        IN composite(canvas.width, canvas.height, content, at.left, at.top)]

\* stabilizeFrames; of an empty array the two maps run over nothing and the
\* result is the empty array
stabilizeFrames(frameBuffers) ==
    IF Count(frameBuffers) = 0 THEN frameBuffers
    ELSE LET frameData == [i \in DOMAIN frameBuffers |->
                              [buf |-> frameBuffers[i],
                               bounds |-> findContentBounds(frameBuffers[i])]]
             maxContentWidth  == MaxOf({frameData[i].bounds.width : i \in DOMAIN frameData})
             maxContentHeight == MaxOf({frameData[i].bounds.height : i \in DOMAIN frameData})
             canvas == CanvasSize(maxContentWidth, maxContentHeight)
         IN [i \in DOMAIN frameData |->
               LET content == extract(frameData[i].buf, frameData[i].bounds)
                   at      == Placement(canvas, frameData[i].bounds)
               IN composite(canvas.width, canvas.height, content, at.left, at.top)]

----------------------------------------------------------------------------
(* SpecStab: stabilizeFrames applied to a frame sequence, and then again to  *)
(* its own result                                                           *)

MaxSide == 2
MaxInk == 2
MaxStabFrames == 2

InkAlphas == {10, 255}

\* a frame of w x h pixels whose pixels at the positions S have the alphas f
SmallImage(w, h, S, f) == Image(w, h, {Block(p[1], p[2], 1, 1, f[p]) : p \in S})

\* the frames that accompany it
Companions ==
    {Image(1, 1, {}),
     Image(1, 1, {Block(0, 0, 1, 1, 255)}),
     Image(3, 2, {Block(1, 0, 1, 1, 255), Block(0, 1, 1, 1, 10)})}

\* options the caller may pass; `margin` is a key autoFix does not name
StabOptions == {<< >>, [margin |-> 20]}

\* one frame is any image of at most MaxSide x MaxSide pixels of which at most
\* MaxInk are not fully transparent; the others are companions
InitStab ==
    /\ \/ input = << >>
       \/ \E n \in 1..MaxStabFrames : \E j \in 0..n-1 :
          \E w \in 1..MaxSide, h \in 1..MaxSide :
          \E S \in SUBSET ((0..w-1) \X (0..h-1)) :
             /\ Cardinality(S) <= MaxInk
             /\ \E f \in [S -> InkAlphas] : \E c \in [(0..n-1) \ {j} -> Companions] :
                   input = [i \in 0..n-1 |->
                              IF i = j THEN SmallImage(w, h, S, f) ELSE c[i]]
    /\ opts \in StabOptions
    /\ pc = "stabilize"
    /\ frames = Idle /\ result = Idle
    /\ meas = Idle /\ anoms = << >> /\ det = NoDetection /\ report = Idle /\ steps = << >>
    /\ tasks = Idle /\ analysis = Idle /\ medianStats = Idle

StabKeeps == UNCHANGED <<input, opts, meas, anoms, det, report, tasks, analysis, medianStats>>

StabilizeOnce ==
    /\ pc = "stabilize"
    /\ frames' = stabilizeFrames(input)
    /\ pc' = "again"
    /\ steps' = Append(steps, "stabilize")
    /\ UNCHANGED result /\ StabKeeps

StabilizeAgain ==
    /\ pc = "again"
    /\ result' = stabilizeFrames(frames)
    /\ pc' = "done"
    /\ steps' = Append(steps, "stabilize")
    /\ UNCHANGED frames /\ StabKeeps

NextStab ==
    \/ StabilizeOnce
    \/ StabilizeAgain

SpecStab == InitStab /\ [][NextStab]_vars

----------------------------------------------------------------------------
(* Replacement and verification *)

\* the loop of replaceBadFrames: the records are applied in order, each reading
\* the array as the earlier ones left it
\* the loop is left after its first turn
ReplacedFromFirstOnly(fs, badFrameInfos, k) ==
    IF k > Len(badFrameInfos) THEN fs
    ELSE [fs EXCEPT ![badFrameInfos[k].index] = fs[badFrameInfos[k].replacement]]

RECURSIVE ReplacedFrom(_, _, _)
ReplacedFrom(fs, badFrameInfos, k) ==
    IF k > Len(badFrameInfos) THEN fs
    ELSE ReplacedFrom([fs EXCEPT ![badFrameInfos[k].index] = fs[badFrameInfos[k].replacement]],
                      badFrameInfos, k + 1)

\* frames[bad.replacement] = frames[bad.index]: the copy runs the wrong way
replaceBadFramesBackwards(frameBuffers, badFrameInfos) ==
    [i \in DOMAIN frameBuffers |->
        IF \E k \in 1..Len(badFrameInfos) : badFrameInfos[k].replacement = i
        THEN frameBuffers[badFrameInfos[CHOOSE k \in 1..Len(badFrameInfos) :
                                           badFrameInfos[k].replacement = i].index]
        ELSE frameBuffers[i]]

replaceBadFrames(frameBuffers, badFrameInfos) == ReplacedFrom(frameBuffers, badFrameInfos, 1)

\* pixelmatch at threshold 0.1 on two black pixels of alpha a1 and a2: each is
\* blended on white (luminance 255 - a), and they differ when
\* 0.5053 * dy^2 > 35215 * 0.1^2
PixelsDiffer(a1, a2) == 5053 * (a1 - a2) * (a1 - a2) > 3521500

Area(b) == b.w * b.h

Overlap(b, c) ==
    Max2(0, Min2(b.x + b.w, c.x + c.w) - Max2(b.x, c.x))
    * Max2(0, Min2(b.y + b.h, c.y + c.h) - Max2(b.y, c.y))

\* the number of pixels pixelmatch counts as different in two images of one size
pixelmatch(img1, img2) ==
    LET covered(b, img) == SumOver(img.px, [c \in img.px |-> Overlap(b, c)])
        against(b, img) ==
            SumOver(img.px, [c \in img.px |->
                                IF PixelsDiffer(b.a, c.a) THEN Overlap(b, c) ELSE 0])
        alone(b, img) == IF PixelsDiffer(b.a, 0) THEN Area(b) - covered(b, img) ELSE 0
    IN SumOver(img1.px, [b \in img1.px |-> against(b, img2) + alone(b, img2)])
       + SumOver(img2.px, [c \in img2.px |-> alone(c, img1)])

LargeVariance == 30

\* the frames verifyFrames samples
checkIndices(numFrames) == << 0, numFrames \div 2, numFrames - 1 >>

\* the alpha of the pixel at (x, y) of an image
AlphaAt(img, x, y) ==
    IF \E b \in img.px : b.x <= x /\ x < b.x + b.w /\ b.y <= y /\ y < b.y + b.h
    THEN (CHOOSE b \in img.px :
             b.x <= x /\ x < b.x + b.w /\ b.y <= y /\ y < b.y + b.h).a
    ELSE 0

\* the raw buffer of an image read as rows of the given width: the pixel at
\* offset k of the buffer is taken for the pixel (k % width, k / width)
Raw(img, width, height) ==
    IF img.width = width /\ img.height = height THEN img
    ELSE Image(width, height,
               {Block(k % width, k \div width, 1, 1,
                      AlphaAt(img, k % img.width, k \div img.width)) :
                  k \in {l \in 0..width * height - 1 :
                            AlphaAt(img, l % img.width, l \div img.width) # 0}})

\* pixelmatch rejects two buffers that are not of the length of width * height
\* pixels, the width and height being those of frame 0
VerifyThrows(frameBuffers) ==
    LET numFrames == Count(frameBuffers) IN
    /\ numFrames > 2
    /\ \E k \in 1..3 :
          LET f == frameBuffers[checkIndices(numFrames)[k]]
          IN f.width * f.height # frameBuffers[0].width * frameBuffers[0].height

verifyFrames(frameBuffers) ==
    LET numFrames == Count(frameBuffers)
        sizes == {<<frameBuffers[i].width, frameBuffers[i].height>> : i \in DOMAIN frameBuffers}
        sizeIssue == IF Cardinality(sizes) > 1 THEN << "Inconsistent frame sizes" >> ELSE << >>
        maxWidth  == frameBuffers[0].width
        maxHeight == frameBuffers[0].height
        totalPixels == maxWidth * maxHeight
        rawFrames(k) == Raw(frameBuffers[checkIndices(numFrames)[k]], maxWidth, maxHeight)
        variance(k) ==
            LET diff == pixelmatch(rawFrames(k), rawFrames(k + 1))
            IN IF diff * 100 > LargeVariance * totalPixels
               THEN << "Large variance between frames" >> ELSE << >>
        issues == IF numFrames > 2 THEN sizeIssue \o variance(1) \o variance(2)
                  ELSE sizeIssue
    IN [passed |-> Len(issues) = 0, issues |-> issues]

----------------------------------------------------------------------------
(* Spec: autoFix *)

MaxRunFrames == 4

\* a sprite that fills its frame, the same sprite gone fully transparent, and a
\* small sprite with a faint pixel beside it
RunImages ==
    {Image(60, 60, {Block(0, 0, 60, 60, 255)}),
     Image(60, 60, {}),
     Image(3, 2, {Block(1, 0, 1, 1, 255), Block(0, 1, 1, 1, 10)})}

\* colour counts (darkGreen, brown, darkPixels) measured on a frame of a run
RunProfiles == {<<100, 100, 100>>, <<10, 100, 100>>, <<100, 30, 100>>}

\* the options of the caller in roomQC.js, which autoFix does not name
RunOptions == {[diffThreshold |-> 50]}

NewReport(n) ==
    [totalFrames |-> n, badFrames |-> << >>, replacements |-> << >>,
     stabilized |-> FALSE, detectionMethods |-> << >>]

\* autoFix has not returned: the record that stands for no value
NoResult == [returned |-> FALSE]

\* runs of up to MaxRunFrames frames whose images and colour counts vary
MixedRun ==
    \E n \in 0..MaxRunFrames :
       \E imgs \in [0..n-1 -> RunImages], c \in [0..n-1 -> RunProfiles] :
          /\ input = imgs
          /\ meas = Measured(n, [i \in 0..n-1 |-> Analysis(c[i][1], c[i][2], c[i][3], 500, 0)],
                             Steady(n, 900), Steady(n, 50))
          /\ report = NewReport(n)

MaxHoleFrames == 8

\* the opaque ratio of a frame that is about 20% transparent
HoleRatios == {780, 800}

\* a 10 x 10 frame: a sprite 8 columns wide, of which frame 4 has kept one column
HoleImage(i) == Image(10, 10, {Block(i % 3, 0, IF i = 4 THEN 1 ELSE 8, 10, 255)})

\* runs of 8 frames and more in which frame 4 has lost nearly all its pixels
HoleRun ==
    \E n \in 8..MaxHoleFrames : \E r \in [0..n-1 -> HoleRatios] :
       /\ input = [i \in 0..n-1 |-> HoleImage(i)]
       /\ meas = Measured(n, [i \in 0..n-1 |->
                                 Analysis(100, 100, 100, IF i = 4 THEN 100 ELSE r[i], 0)],
                          Steady(n, 900), Steady(n, 50))
       /\ report = NewReport(n)

Init ==
    /\ MixedRun \/ HoleRun
    /\ opts \in RunOptions
    /\ frames = input
    /\ pc = "detect"
    /\ anoms = << >>
    /\ det = NoDetection
    /\ result = NoResult
    /\ steps = << >>
    /\ tasks = Idle /\ analysis = Idle /\ medianStats = Idle

RunKeeps == UNCHANGED <<input, opts, meas, anoms, tasks, analysis, medianStats>>

\* if (detectionResult.badFrames.length >= 0): the replace step is always taken
NeedsReplaceAlways(d) == Len(d.badFrames) >= 0

\* if (detectionResult.badFrames.length > 0)
NeedsReplace(d) == Len(d.badFrames) > 0

\* Step 1: detectBadFrames and the two report fields set from it
Detect ==
    /\ pc = "detect"
    /\ det' = detectBadFrames(meas, EffectiveOptions(opts))
    /\ report' = [report EXCEPT !.badFrames = det'.badFrames,
                                !.detectionMethods = det'.methodsUsed]
    /\ pc' = IF NeedsReplace(det') THEN "replace" ELSE "stabilize"
    /\ steps' = Append(steps, "detect")
    /\ UNCHANGED <<frames, result>> /\ RunKeeps

\* the replace step writing into the caller's array instead of a copy
ReplaceInPlace ==
    /\ pc = "replace"
    /\ frames' = replaceBadFrames(frames, det.badFrames)
    /\ input' = frames'
    /\ report' = [report EXCEPT !.replacements =
                    [k \in 1..Len(det.badFrames) |->
                        [badFrame     |-> det.badFrames[k].index,
                         replacedWith |-> det.badFrames[k].replacement,
                         reasons      |-> det.badFrames[k].reasons]]]
    /\ pc' = "stabilize"
    /\ steps' = Append(steps, "replace")
    /\ UNCHANGED <<det, result, opts, meas, anoms, tasks, analysis, medianStats>>

\* Step 2: replaceBadFrames
Replace ==
    /\ pc = "replace"
    /\ frames' = replaceBadFrames(frames, det.badFrames)
    /\ report' = [report EXCEPT !.replacements =
                    [k \in 1..Len(det.badFrames) |->
                        [badFrame     |-> det.badFrames[k].index,
                         replacedWith |-> det.badFrames[k].replacement,
                         reasons      |-> det.badFrames[k].reasons]]]
    /\ pc' = "stabilize"
    /\ steps' = Append(steps, "replace")
    /\ UNCHANGED <<det, result>> /\ RunKeeps

\* Step 3: stabilizeFrames
Stabilize ==
    /\ pc = "stabilize"
    /\ frames' = stabilizeFrames(frames)
    /\ report' = [report EXCEPT !.stabilized = TRUE]
    /\ pc' = "verify"
    /\ steps' = Append(steps, "stabilize")
    /\ UNCHANGED <<det, result>> /\ RunKeeps

\* a verifier that takes the frames back when it finds issues
VerifyRestores ==
    /\ pc = "verify"
    /\ pc' = "return"
    /\ report' = [verified |-> verifyFrames(frames).passed,
                  verificationDetails |-> verifyFrames(frames)] @@ report
    /\ frames' = IF verifyFrames(frames).passed THEN frames ELSE input
    /\ steps' = Append(steps, "verify")
    /\ UNCHANGED <<det, result>> /\ RunKeeps

\* Step 4: verifyFrames
Verify ==
    /\ pc = "verify"
    /\ IF VerifyThrows(frames)
       THEN pc' = "threw" /\ UNCHANGED report
       ELSE /\ pc' = "return"
            /\ report' = [verified |-> verifyFrames(frames).passed,
                          verificationDetails |-> verifyFrames(frames)] @@ report
    /\ steps' = Append(steps, "verify")
    /\ UNCHANGED <<frames, det, result>> /\ RunKeeps

Return ==
    /\ pc = "return"
    /\ result' = [frames |-> frames, report |-> report]
    /\ pc' = "done"
    /\ steps' = Append(steps, "return")
    /\ UNCHANGED <<frames, det, report>> /\ RunKeeps

\* the step at pc decodes or encodes at least one frame
UsesCodec ==
    \/ pc = "detect" /\ Count(input) >= 3
    \/ pc \in {"stabilize", "verify"} /\ Count(frames) >= 1

\* the rejection is swallowed and what has been built so far is handed back
CodecErrorPartial ==
    /\ UsesCodec
    /\ pc' = "threw"
    /\ result' = [frames |-> frames, report |-> report]
    /\ UNCHANGED <<frames, det, report, steps>> /\ RunKeeps

\* a codec operation of the step rejects: the awaited promise rejects and
\* autoFix rejects with it, returning nothing
CodecError ==
    /\ UsesCodec
    /\ pc' = "threw"
    /\ UNCHANGED <<frames, det, report, result, steps>> /\ RunKeeps

Next ==
    \/ Detect
    \/ Replace
    \/ Stabilize
    \/ Verify
    \/ Return
    \/ CodecError

Spec == Init /\ [][Next]_vars

----------------------------------------------------------------------------
(* Properties of detection, checked under SpecDetect *)

Detected == pc = "detected" /\ meas.numFrames >= 3
Records == {det.badFrames[k] : k \in 1..Len(det.badFrames)}
BadSet == {b.index : b \in Records}
GoodSet == (0..meas.numFrames - 1) \ BadSet
Dist(a, b) == IF a < b THEN b - a ELSE a - b

\* C1: every BadFrameRecord returned for N >= 3 frames has a replacement that is
\* an index of the sequence, is not the record's own index and, when some index
\* of the sequence is good, is itself good.
C1_ReplacementSound ==
    Detected =>
        \A b \in Records :
            /\ b.replacement \in 0..meas.numFrames - 1
            /\ b.replacement # b.index
            /\ (GoodSet # {} => b.replacement \in GoodSet)

\* a bad frame between two bad frames has been given a good replacement
C1_Witness ==
    /\ Detected
    /\ \E b \in Records :
          /\ b.index - 1 \in BadSet /\ b.index + 1 \in BadSet
          /\ b.replacement \in GoodSet

\* the good index nearest to i, the earlier one on a tie
IsNearestGood(g, i) ==
    /\ g \in GoodSet
    /\ \A h \in GoodSet :
          \/ Dist(g, i) < Dist(h, i)
          \/ Dist(g, i) = Dist(h, i) /\ g <= h

\* the replacement as the specification words it: the predecessor, else the successor,
\* else the nearest good index at distance 2 or more, earlier before later
StatedReplacement(i) ==
    IF i - 1 \in GoodSet THEN i - 1
    ELSE IF i + 1 \in GoodSet THEN i + 1
    ELSE LET d == MinOf({Dist(g, i) : g \in GoodSet})
         IN IF i - d \in GoodSet THEN i - d ELSE i + d

\* C3: when a good index exists, the replacement of a bad index i is i-1 if good,
\* else i+1 if good, else the good index at the smallest distance (earlier before
\* later); that is, the nearest good index, ties going to the earlier one.
C3_NearestGoodEarlierFirst ==
    (Detected /\ GoodSet # {}) =>
        \A b \in Records :
            /\ b.replacement = StatedReplacement(b.index)
            /\ IsNearestGood(b.replacement, b.index)

\* a bad index whose two neighbours are bad and which has good frames at the
\* same distance on both sides
C3_Witness ==
    /\ Detected
    /\ \E b \in Records : \E d \in 2..meas.numFrames :
          /\ \A e \in 1..d-1 : (b.index - e) \notin GoodSet /\ (b.index + e) \notin GoodSet
          /\ b.index - d \in GoodSet /\ b.index + d \in GoodSet
          /\ b.replacement = b.index - d

\* the darkGreen count of the frames other than j
CommonCount(j) == meas.frameAnalysis[IF j = 0 THEN 1 ELSE 0].colors.darkGreen

\* all frames have the same analysis except frame j, whose darkGreen count is a
\* tenth of the count c > 0 the others share
AllButOneTenth(j, c) ==
    LET fa == meas.frameAnalysis IN
    /\ c > 0
    /\ fa[j].colors.darkGreen * 10 = c
    /\ \A i \in 0..meas.numFrames - 1 :
          i # j => fa[i] = [fa[j] EXCEPT !.colors.darkGreen = c]

SevereGreenLoss(j) ==
    \E b \in Records :
        /\ b.index = j
        /\ \E k \in 1..Len(b.reasons) :
              b.reasons[k] = Anomaly("color_loss", "darkGreen", "severe")

\* C9 as stated: whatever the common count, the frame with a tenth of it is
\* reported with a severe color_loss (options at their defaults).
C9_AsStated ==
    (Detected /\ EffectiveOptions(opts) = DefaultOptions) =>
        \A j \in 0..meas.numFrames - 1 :
            AllButOneTenth(j, CommonCount(j)) => SevereGreenLoss(j)

\* C9, amended: for N >= 3 frames identical except one whose darkGreen count is
\* a tenth of the common count, that frame is reported with a severe color_loss
\* on darkGreen, provided the common count is above the presence floor of 50
\* and colorRatioThreshold is above 0.1.
C9_TenthFlaggedAboveFloor ==
    Detected =>
        \A j \in 0..meas.numFrames - 1 :
            ( /\ AllButOneTenth(j, CommonCount(j))
              /\ CommonCount(j) > 50
              /\ EffectiveOptions(opts).colorRatioThreshold > 100 )
            => SevereGreenLoss(j)

C9_Witness ==
    /\ Detected
    /\ \E j \in 0..meas.numFrames - 1 : AllButOneTenth(j, 60) /\ SevereGreenLoss(j)

\* Q1 - 3 * IQR of the adjacent scores, by nearest rank
StrictFloor ==
    LET m      == meas.numFrames - 1
        sorted == SortAsc([k \in 1..m |-> meas.adjacentSSIM[k - 1]])
        q1     == sorted[(m \div 4) + 1]
        q3     == sorted[((3 * m) \div 4) + 1]
    IN q1 - 3 * (q3 - q1)

AfterMethod3 == pc \in {"method4", "resolve", "detected"} /\ meas.numFrames >= 3

Damaged(i) == HasType(Got(anoms, i), "structural_damage")

\* C10: a frame is flagged structural_damage only if it is interior, both of its
\* adjacent SSIM scores are strictly below Q1 - 3*IQR and the smaller of the two
\* is strictly below ssimThreshold; one low neighbour alone never flags it.
C10_DoubleConfirmation ==
    AfterMethod3 =>
        \A i \in 0..meas.numFrames - 1 :
            Damaged(i) =>
                /\ 0 < i /\ i < meas.numFrames - 1
                /\ meas.adjacentSSIM[i - 1] < StrictFloor
                /\ meas.adjacentSSIM[i] < StrictFloor
                /\ Min2(meas.adjacentSSIM[i - 1], meas.adjacentSSIM[i])
                      < EffectiveOptions(opts).ssimThreshold

\* one frame is flagged, and its neighbour, with exactly one low score, is not
C10_Witness ==
    /\ AfterMethod3
    /\ \E i \in 1..meas.numFrames - 3 :
          /\ Damaged(i)
          /\ ~ Damaged(i + 1)
          /\ meas.adjacentSSIM[i] < StrictFloor
          /\ ~ (meas.adjacentSSIM[i + 1] < StrictFloor)

----------------------------------------------------------------------------
(* Properties of stabilization, checked under SpecStab *)

Stabilized == pc \in {"again", "done"}

\* the columns and the rows that hold a pixel with alpha above 20
ContentColumns(img) == UNION {b.x .. (b.x + b.w - 1) : b \in {c \in img.px : c.a > 20}}
ContentRows(img) == UNION {b.y .. (b.y + b.h - 1) : b \in {c \in img.px : c.a > 20}}
HasContent(img) == \E b \in img.px : b.a > 20

\* the size of the content bounding box, a frame without content counting whole
ContentWidth(img) ==
    IF HasContent(img) THEN MaxOf(ContentColumns(img)) - MinOf(ContentColumns(img)) + 1
    ELSE img.width
ContentHeight(img) ==
    IF HasContent(img) THEN MaxOf(ContentRows(img)) - MinOf(ContentRows(img)) + 1
    ELSE img.height

\* C6: after stabilizeFrames all frames have one width and one height, and the
\* content (alpha > 20) of each frame has its lowest row on the bottom row of the
\* canvas and its first column at floor((canvasWidth - contentWidth) / 2).
C6_UniformBottomCentred ==
    Stabilized =>
        /\ \A i, j \in DOMAIN frames :
              frames[i].width = frames[j].width /\ frames[i].height = frames[j].height
        /\ \A i \in DOMAIN frames :
              HasContent(frames[i]) =>
                  /\ MaxOf(ContentRows(frames[i])) = frames[i].height - 1
                  /\ MinOf(ContentColumns(frames[i]))
                        = (frames[i].width - ContentWidth(frames[i])) \div 2

\* two frames whose contents differ in size, one of them not standing on the
\* bottom row of its frame before, both standing on the canvas bottom after
C6_Witness ==
    /\ Stabilized
    /\ Count(input) = 2
    /\ HasContent(input[0]) /\ HasContent(input[1])
    /\ ContentWidth(input[0]) # ContentWidth(input[1])
    /\ MaxOf(ContentRows(input[0])) < input[0].height - 1
    /\ MaxOf(ContentRows(frames[0])) = frames[0].height - 1
    /\ MaxOf(ContentRows(frames[1])) = frames[1].height - 1

\* C7 as stated: stabilizing the stabilized sequence again changes nothing.
C7_Idempotent == pc = "done" => result = frames

\* the margin the specification names: the caller's, 20 by default
StatedMargin == IF "margin" \in DOMAIN opts THEN opts.margin ELSE 20

WidestContent == MaxOf({ContentWidth(input[i]) : i \in DOMAIN input})
TallestContent == MaxOf({ContentHeight(input[i]) : i \in DOMAIN input})

----------------------------------------------------------------------------
(* Crop rectangles and placements of stabilizeFrames, checked under SpecStab *)

\* the crop rectangle of input frame i, the canvas, and where the crop is put
Crop(i) == findContentBounds(input[i])
Canvas ==
    CanvasSize(MaxOf({Crop(i).width : i \in DOMAIN input}),
               MaxOf({Crop(i).height : i \in DOMAIN input}))
Place(i) == Placement(Canvas, Crop(i))

Whole(i) == [x |-> 0, y |-> 0, width |-> input[i].width, height |-> input[i].height]

\* C29: for a sequence that is not empty, the crop rectangle of every frame lies
\* inside the frame, a frame with no pixel of alpha above 20 being taken whole,
\* and the crop is put inside the canvas: 0 <= left, left + contentWidth <=
\* canvasWidth, 0 <= top and top + contentHeight = canvasHeight; the stabilized
\* frame has the canvas's size and nothing outside the placed rectangle.
C29_CropAndPlacementInside ==
    (Stabilized /\ Count(input) > 0) =>
        \A i \in DOMAIN input :
            /\ 0 <= Crop(i).x /\ Crop(i).width >= 1
            /\ Crop(i).x + Crop(i).width <= input[i].width
            /\ 0 <= Crop(i).y /\ Crop(i).height >= 1
            /\ Crop(i).y + Crop(i).height <= input[i].height
            /\ ~ HasContent(input[i]) => Crop(i) = Whole(i)
            /\ 0 <= Place(i).left
            /\ Place(i).left + Crop(i).width <= Canvas.width
            /\ 0 <= Place(i).top
            /\ Place(i).top + Crop(i).height = Canvas.height
            /\ frames[i].width = Canvas.width /\ frames[i].height = Canvas.height
            /\ \A b \in frames[i].px :
                  /\ Place(i).left <= b.x
                  /\ b.x + b.w <= Place(i).left + Crop(i).width
                  /\ Place(i).top <= b.y
                  /\ b.y + b.h <= Canvas.height

\* a frame without content has been taken whole beside a frame whose content
\* touches its right and bottom edges without filling it
C29_Witness ==
    /\ Stabilized
    /\ Count(input) = 2
    /\ \E i, j \in DOMAIN input :
          /\ ~ HasContent(input[i])
          /\ Crop(i) = Whole(i)
          /\ HasContent(input[j])
          /\ Crop(j).x > 0
          /\ Crop(j).x + Crop(j).width = input[j].width
          /\ Crop(j).y + Crop(j).height = input[j].height
          /\ Place(j).left > 0

\* a frame whose only pixels have alpha 10 has been taken whole
C29_FaintSeen ==
    /\ Stabilized
    /\ \E i \in DOMAIN input :
          /\ input[i].px # {} /\ ~ HasContent(input[i])
          /\ input[i].width = 2 /\ Crop(i) = Whole(i)

----------------------------------------------------------------------------
(* Properties of autoFix, checked under Spec *)

AllIndices == 0..Count(input) - 1

\* C2 as stated: when every index is bad, each record's replacement is marked
\* unresolved (it names no index) and replaceBadFrames leaves every original
\* frame in place; the run is then at its stabilization step.
C2_AllBadLeftInPlace ==
    (pc = "stabilize" /\ BadSet = AllIndices /\ BadSet # {}) =>
        /\ \A b \in Records : b.replacement \notin AllIndices
        /\ frames = input

IsPrefix(s, t) == Len(s) <= Len(t) /\ \A k \in 1..Len(s) : s[k] = t[k]

WithReplace == << "detect", "replace", "stabilize", "verify", "return" >>
WithoutReplace == << "detect", "stabilize", "verify", "return" >>

\* C4: a run executes Detect, Replace exactly when the bad-frame list is not
\* empty, Stabilize, Verify, and returns, each step once and in this order; short
\* of a codec error a next step is always there to take, verification does not
\* throw, and the run ends with report.stabilized = true.  (Each step is guarded by
\* its value of pc alone, so a run that is at one of the five can take it.)
C4_LinearPass ==
    /\ IsPrefix(steps, WithReplace) \/ IsPrefix(steps, WithoutReplace)
    /\ Len(steps) >= 2 => (steps[2] = "replace" <=> Len(det.badFrames) > 0)
    /\ pc \notin {"done", "threw"} =>
          /\ pc \in {"detect", "replace", "stabilize", "verify", "return"}
          /\ pc = "verify" => ~ VerifyThrows(frames)
    /\ pc = "done" =>
          /\ steps \in {WithReplace, WithoutReplace}
          /\ report.stabilized = TRUE
          /\ result.report.stabilized = TRUE

\* a run with bad frames has come to its end through all five steps
C4_Witness ==
    /\ pc = "done"
    /\ steps = WithReplace
    /\ Len(report.badFrames) > 0
    /\ report.stabilized = TRUE

\* C5: with fewer than 3 frames detection finds nothing (badFrames, replacements
\* and detectionMethods stay empty), no frame is replaced, and stabilization and
\* verification still run: the returned report has stabilized = true and carries
\* verificationDetails.
C5_TooFewFrames ==
    Count(input) < 3 =>
        /\ report.badFrames = << >>
        /\ report.replacements = << >>
        /\ report.detectionMethods = << >>
        /\ \A k \in 1..Len(steps) : steps[k] # "replace"
        /\ pc = "stabilize" => frames = input
        /\ pc = "done" =>
              /\ result.report.stabilized = TRUE
              /\ "verificationDetails" \in DOMAIN result.report
              /\ result.report.verificationDetails = verifyFrames(result.frames)
              /\ steps = WithoutReplace

\* a run on two frames, one of which has lost its green, has returned
C5_Witness ==
    /\ pc = "done"
    /\ Count(input) = 2
    /\ meas.frameAnalysis[0].colors.darkGreen * 10
          = meas.frameAnalysis[1].colors.darkGreen
    /\ result.report.stabilized = TRUE
    /\ result.report.badFrames = << >>

\* no frame other than frame 4 has an anomaly
OnlyFourFlagged == \A b \in Records : b.index = 4

\* C11: of 8 frames, frame 4 is about 10% opaque and every other about 80%, and
\* nothing else is anomalous: frame 4 is recorded with a transparency_hole, its
\* replacement is 3, and after the replace step position 4 holds frame 3's image
\* while every other position holds its own.
C11_HoleReplacedByPredecessor ==
    (/\ pc \in {"replace", "stabilize"}
     /\ Count(input) = 8
     /\ meas.frameAnalysis[4].alpha.opaqueRatio = 100
     /\ \A i \in AllIndices \ {4} : meas.frameAnalysis[i].alpha.opaqueRatio \in HoleRatios
     /\ OnlyFourFlagged) =>
        /\ \E b \in Records :
              /\ b.index = 4
              /\ HasType(b.reasons, "transparency_hole")
              /\ b.replacement = 3
        /\ pc = "stabilize" =>
              /\ steps = << "detect", "replace" >>
              /\ frames[4] = input[3]
              /\ \A i \in AllIndices \ {4} : frames[i] = input[i]

\* the replace step has put frame 3's image, which is not frame 4's, at position 4
C11_Witness ==
    /\ pc = "stabilize"
    /\ Count(input) = 8
    /\ BadSet = {4}
    /\ \E i \in AllIndices : meas.frameAnalysis[i].alpha.opaqueRatio = 780
    /\ frames[4] = input[3]
    /\ input[3] # input[4]

----------------------------------------------------------------------------
(* Properties of the replace step, checked under Spec *)

\* the orders in which L records can be applied
Orders(L) == {f \in [1..L -> 1..L] : \A k, l \in 1..L : f[k] = f[l] => k = l}

AfterReplace == pc = "stabilize" /\ steps = << "detect", "replace" >>

\* C28: after the replace step of a run with at least one good frame, every
\* position that is not bad holds its own frame, every bad position holds the
\* original frame of its replacement, which is a good frame, and applying the
\* records in any other order gives the same frames.
C28_ReplacedByGoodOriginals ==
    (AfterReplace /\ GoodSet # {}) =>
        /\ \A i \in GoodSet : frames[i] = input[i]
        /\ \A b \in Records :
              b.replacement \in GoodSet /\ frames[b.index] = input[b.replacement]
        /\ Len(det.badFrames) <= MaxRunFrames =>
              \A f \in Orders(Len(det.badFrames)) :
                  replaceBadFrames(input, [k \in 1..Len(det.badFrames) |->
                                              det.badFrames[f[k]]]) = frames

\* two bad frames have been replaced by good frames with other images
C28_Witness ==
    /\ AfterReplace
    /\ GoodSet # {}
    /\ \E b, c \in Records :
          /\ b.index # c.index
          /\ frames[b.index] # input[b.index]
          /\ frames[c.index] # input[c.index]

----------------------------------------------------------------------------
(* Properties of the verify step, checked under Spec *)

SizeIssueReported ==
    \E k \in 1..Len(report.verificationDetails.issues) :
        report.verificationDetails.issues[k] = "Inconsistent frame sizes"

\* C30: a run that has completed has no issue of inconsistent frame sizes in its
\* report, the frames verified being those stabilizeFrames has put on one
\* canvas; so a run on 1 or 2 frames always ends with report.verified true.
C30_NoSizeIssueAfterStabilize ==
    pc = "done" =>
        /\ ~ SizeIssueReported
        /\ result.report = report
        /\ Count(input) \in {1, 2} => report.verified = TRUE

\* a run on two frames of different sizes has completed and is verified
C30_Witness ==
    /\ pc = "done"
    /\ Count(input) = 2
    /\ input[0].width # input[1].width
    /\ report.verified = TRUE
    /\ report.verificationDetails.issues = << >>

----------------------------------------------------------------------------
(* Properties of the quantiles, checked under SpecDetect *)

Values(s) == {s[k] : k \in 1..Len(s)}

\* nearest-rank selection by counting: the value v of s with at most k values
\* of s below it and more than k values of s not above it
NearestRank(s, k) ==
    CHOOSE v \in Values(s) :
        /\ Cardinality({i \in 1..Len(s) : s[i] < v}) <= k
        /\ Cardinality({i \in 1..Len(s) : s[i] <= v}) > k

Field(f(_)) == ToSeq([i \in 0..meas.numFrames - 1 |-> f(meas.frameAnalysis[i])], meas.numFrames)

OpacityValues == Field(LAMBDA a : a.alpha.opaqueRatio)
SemiTransValues == Field(LAMBDA a : a.alpha.semiTransRatio)

\* every series detection takes a median or a quartile of
MedianSeries ==
    {Field(LAMBDA a : a.colors.darkGreen), Field(LAMBDA a : a.colors.brown),
     Field(LAMBDA a : a.colors.darkPixels), OpacityValues, SemiTransValues,
     ToSeq(meas.consecutiveDiffs, meas.numFrames - 1)}
QuartileSeries ==
    {OpacityValues, SemiTransValues, ToSeq(meas.adjacentSSIM, meas.numFrames - 1)}

\* the frames carrying an opacity anomaly of the given type
Holes == {i \in DOMAIN anoms : HasType(anoms[i], "transparency_hole")}
Extras == {i \in DOMAIN anoms : HasType(anoms[i], "extra_opacity")}

\* C12: the median and the quartiles detection computes are the elements of
\* rank floor(n/2), floor(n/4) and floor(3n/4) of the values, as nearest-rank
\* selection by counting finds them, hence values of the input; for the opacity
\* ratios 0.1, 0.5, 0.5, 0.5, 0.9 both quartiles are 0.5, so that after Method 2
\* the first frame, and no other, has a transparency_hole and the last, and no
\* other, an extra_opacity.
C12_NearestRank ==
    /\ Detected =>
          /\ \A s \in MedianSeries :
                /\ getMedian(s) = NearestRank(s, Len(s) \div 2)
                /\ getMedian(s) \in Values(s)
          /\ \A s \in QuartileSeries :
                /\ LowerQuartile(s) = NearestRank(s, Len(s) \div 4)
                /\ UpperQuartile(s) = NearestRank(s, (3 * Len(s)) \div 4)
                /\ {LowerQuartile(s), UpperQuartile(s)} \subseteq Values(s)
    /\ (pc = "method3" /\ OpacityValues = << 100, 500, 500, 500, 900 >>) =>
          /\ LowerQuartile(OpacityValues) = 500
          /\ UpperQuartile(OpacityValues) = 500
          /\ EffectiveOptions(opts) = DefaultOptions => Holes = {0} /\ Extras = {4}

\* Method 2 has run on the opacity ratios 0.1, 0.5, 0.5, 0.5, 0.9
C12_Witness ==
    /\ pc = "method3"
    /\ OpacityValues = << 100, 500, 500, 500, 900 >>
    /\ Holes = {0}
    /\ Extras = {4}

\* C13: a run in which a codec operation has failed, whether while the frames are
\* analysed and normalised for detection, stabilized or verified, has ended with
\* an error: it has returned nothing and takes no further step; a value
\* {frames, report} is returned only by a run that has taken every step.
C13_CodecFailureIsFatal ==
    /\ [](pc = "threw" => result = NoResult)
    /\ [](result # NoResult => pc = "done" /\ steps \in {WithReplace, WithoutReplace})
    /\ [][pc # "threw"]_vars

\* verification has failed on frames that were replaced and stabilized
C13_Witness ==
    /\ pc = "threw"
    /\ steps = << "detect", "replace", "stabilize" >>
    /\ frames # input
    /\ result = NoResult

\* the frames handed to stabilization
BeforeStabilize ==
    IF Len(det.badFrames) > 0 THEN replaceBadFrames(input, det.badFrames) ELSE input

\* C14: verification leaves the frames as stabilization produced them and adds
\* to the report only verified and verificationDetails, verified being
\* verificationDetails.passed and passed being true exactly when there are no
\* issues; the frames returned are the stabilized frames whatever it found.
C14_VerifierAdvisory ==
    /\ [][(pc = "verify" /\ pc' = "return") =>
            /\ frames' = frames
            /\ DOMAIN report' = DOMAIN report \cup {"verified", "verificationDetails"}
            /\ \A f \in DOMAIN report : report'[f] = report[f]
            /\ report'.verificationDetails = verifyFrames(frames)]_vars
    /\ [](pc = "done" =>
            /\ result.frames = stabilizeFrames(BeforeStabilize)
            /\ result.report.verified = result.report.verificationDetails.passed
            /\ result.report.verificationDetails.passed
                  <=> result.report.verificationDetails.issues = << >>)

\* a run has returned its stabilized frames with a report of failed verification
C14_Witness ==
    /\ pc = "done"
    /\ result.report.verified = FALSE
    /\ result.report.verificationDetails.issues # << >>
    /\ result.frames = stabilizeFrames(BeforeStabilize)

\* C15: no step of autoFix changes the caller's sequence, which keeps its length
\* and the frame at each position; the report counts its N frames, and the
\* sequence returned has N frames too.
C15_InputUntouched ==
    /\ [][input' = input]_vars
    /\ [](report.totalFrames = Count(input))
    /\ [](pc = "done" =>
            /\ Count(result.frames) = Count(input)
            /\ DOMAIN result.frames = DOMAIN input
            /\ result.report.totalFrames = Count(input))

\* a run that replaced frames has returned a sequence that differs from the
\* caller's, which is as it was
C15_Witness ==
    /\ pc = "done"
    /\ steps = WithReplace
    /\ Count(input) >= 3
    /\ \E i \in AllIndices : \A j \in AllIndices : result.frames[i] # input[j]
    /\ \E i, j \in AllIndices : input[i] # input[j]
    /\ result.report.totalFrames = Count(input)

----------------------------------------------------------------------------
(* Properties of the analysis tasks, checked under SpecAnalyze *)

TaskIndices == 0..meas.numFrames - 1

\* C16: the tasks are all started before any completes, they complete in any
\* order, and the statistics are computed only once every task has completed;
\* the array they are computed from and the statistics themselves are those of
\* the frames in index order, whatever the order of completion.
C16_AggregateAfterAllTasks ==
    /\ pc = "await" => \A i \in TaskIndices : tasks[i] # "pending"
    /\ pc \in {"map", "await", "threw"} => medianStats = NoStats
    /\ DOMAIN analysis = {i \in TaskIndices : tasks[i] = "done"}
    /\ pc = "aggregated" =>
          /\ \A i \in TaskIndices : tasks[i] = "done"
          /\ Len(steps) = meas.numFrames
          /\ analysis = meas.frameAnalysis
          /\ medianStats = calculateMedianStats(meas.frameAnalysis, meas.numFrames)

\* the statistics have been computed after the tasks completed last to first
C16_Witness ==
    /\ pc = "aggregated"
    /\ meas.numFrames = 3
    /\ steps = << 2, 1, 0 >>
    /\ meas.frameAnalysis[0] # meas.frameAnalysis[2]
    /\ medianStats # NoStats

----------------------------------------------------------------------------
(* Properties of Methods 1 and 2, checked under SpecDetect *)

\* the IQR bounds on the opaque ratio, times 1000 * 1000, from the quartiles
\* found by counting
OpacityQ1 == NearestRank(OpacityValues, meas.numFrames \div 4)
OpacityQ3 == NearestRank(OpacityValues, (3 * meas.numFrames) \div 4)
OpacityIQR == OpacityQ3 - OpacityQ1
OpacityLower == 1000 * OpacityQ1 - EffectiveOptions(opts).opacityIQRMultiplier * OpacityIQR
OpacityUpper == 1000 * OpacityQ3 + EffectiveOptions(opts).opacityIQRMultiplier * OpacityIQR
Opacity(i) == meas.frameAnalysis[i].alpha.opaqueRatio

OpacityAnomalies(i) ==
    {k \in 1..Len(Got(anoms, i)) :
        anoms[i][k].type \in {"transparency_hole", "extra_opacity"}}

\* C17: after Method 2 a frame has an opacity anomaly exactly when its opaque
\* ratio is below Q1 - k*IQR or above Q3 + k*IQR, a transparency_hole exactly in
\* the first case and an extra_opacity exactly in the second, and never two.
C17_OpacityOutliers ==
    pc = "method3" =>
        LET lower == OpacityLower
            upper == OpacityUpper
        IN \A i \in 0..meas.numFrames - 1 :
              /\ i \in Holes <=> 1000 * Opacity(i) < lower
              /\ i \in Extras <=> 1000 * Opacity(i) > upper
              /\ OpacityAnomalies(i) # {} <=>
                    (1000 * Opacity(i) < lower \/ 1000 * Opacity(i) > upper)
              /\ Cardinality(OpacityAnomalies(i)) <= 1

\* Method 2 has flagged a frame below the bounds and has passed a frame that
\* lies on a bound, the quartiles being apart
C17_Witness ==
    /\ pc = "method3"
    /\ OpacityIQR > 0
    /\ Holes # {}
    /\ \E i \in 0..meas.numFrames - 1 :
          /\ 1000 * Opacity(i) \in {OpacityLower, OpacityUpper}
          /\ OpacityAnomalies(i) = {}

\* the severity of the opacity anomaly of frame i
OpacitySeverity(i) == anoms[i][CHOOSE k \in OpacityAnomalies(i) : TRUE].severity

\* C18 as stated: an opacity anomaly is severe exactly when the opaque ratio is
\* more than one IQR beyond the bound it violates, below the lower bound for a
\* transparency_hole or above the upper bound for an extra_opacity.
C18_SevereBeyondOneIQR ==
    pc = "method3" =>
        LET lower == OpacityLower
            upper == OpacityUpper
        IN \A i \in 0..meas.numFrames - 1 :
              OpacityAnomalies(i) # {} =>
                 (OpacitySeverity(i) = "severe" <=>
                    \/ i \in Holes /\ 1000 * Opacity(i) < lower - 1000 * OpacityIQR
                    \/ i \in Extras /\ 1000 * Opacity(i) > upper + 1000 * OpacityIQR)

\* what the code computes: severe exactly below the lower bound less one IQR
C18_SevereOnlyBelow ==
    pc = "method3" =>
        LET lower == OpacityLower
        IN \A i \in 0..meas.numFrames - 1 :
              OpacityAnomalies(i) # {} =>
                 (OpacitySeverity(i) = "severe" <=>
                    1000 * Opacity(i) < lower - 1000 * OpacityIQR)

ColorCount(i, ch) == meas.frameAnalysis[i].colors[ch]

\* the median count of a bucket, found by counting
MedianCount(ch) ==
    NearestRank(ToSeq([i \in 0..meas.numFrames - 1 |-> ColorCount(i, ch)], meas.numFrames),
                meas.numFrames \div 2)

\* the color_loss anomalies of frame i for bucket ch
ColorLosses(i, ch) ==
    {k \in 1..Len(Got(anoms, i)) :
        anoms[i][k].type = "color_loss" /\ anoms[i][k].channel = ch}

\* C19: after Method 1 a frame has a color_loss anomaly for a bucket exactly
\* when the bucket's median count is above 50 and the frame's count is less than
\* colorRatioThreshold times the median; the anomaly is severe when the count is
\* less than 0.2 times the median and moderate otherwise; a bucket whose median
\* is 50 or less yields no anomaly.
C19_ColorLoss ==
    pc = "method2" =>
        \A ch \in {"darkGreen", "brown", "darkPixels"} :
            LET median == MedianCount(ch)
                thr    == EffectiveOptions(opts).colorRatioThreshold
            IN \A i \in 0..meas.numFrames - 1 :
                  /\ ColorLosses(i, ch) # {} <=>
                        (median > 50 /\ ColorCount(i, ch) * 1000 < thr * median)
                  /\ Cardinality(ColorLosses(i, ch)) <= 1
                  /\ \A k \in ColorLosses(i, ch) :
                        anoms[i][k].severity =
                           IF ColorCount(i, ch) * 10 < 2 * median THEN "severe" ELSE "moderate"
                  /\ (median <= 50 /\ ch = "darkGreen") =>
                        ~ HasType(Got(anoms, i), "green_washout")

\* Method 1 has found a severe loss of one bucket and a moderate loss of another
C19_Witness ==
    /\ pc = "method2"
    /\ \E i, j \in 0..meas.numFrames - 1 :
          /\ \E k \in ColorLosses(i, "darkGreen") : anoms[i][k].severity = "severe"
          /\ \E k \in ColorLosses(j, "brown") : anoms[j][k].severity = "moderate"
          /\ ColorLosses(j, "darkGreen") = {}

\* the count of bucket ch in frame i is below colorRatioThreshold times the median
BelowThreshold(i, ch) ==
    ColorCount(i, ch) * 1000 < EffectiveOptions(opts).colorRatioThreshold * MedianCount(ch)

\* C20 as stated: when the median darkGreen count is above 100 and darkGreen is
\* the only bucket of a frame below the threshold, the frame's anomalies include
\* a green_washout.
C20_GreenWashoutEmitted ==
    (pc = "method2" /\ MedianCount("darkGreen") > 100) =>
        \A i \in 0..meas.numFrames - 1 :
            (/\ BelowThreshold(i, "darkGreen")
             /\ ~ BelowThreshold(i, "brown")
             /\ ~ BelowThreshold(i, "darkPixels")) =>
                HasType(Got(anoms, i), "green_washout")

\* what the code computes: no frame ever gets a green_washout, the color_loss of
\* the darkGreen bucket being there whenever the special check would fire
NoGreenWashout == \A i \in DOMAIN anoms : ~ HasType(anoms[i], "green_washout")

\* the green_washout anomalies of frame i
GreenWashouts(i) ==
    {k \in 1..Len(Got(anoms, i)) : anoms[i][k].type = "green_washout"}

\* C21: after Method 1 no frame has two records about one bucket: at most one
\* about darkGreen, be it a color_loss or a green_washout, at most one about
\* brown and at most one about darkPixels.
C21_OneRecordPerBucket ==
    pc = "method2" =>
        \A i \in 0..meas.numFrames - 1 :
            /\ Cardinality(ColorLosses(i, "darkGreen")) + Cardinality(GreenWashouts(i)) <= 1
            /\ Cardinality(ColorLosses(i, "brown")) <= 1
            /\ Cardinality(ColorLosses(i, "darkPixels")) <= 1
            /\ Len(Got(anoms, i)) <= 3

\* Method 1 has run on frames whose median darkGreen count is above 100, one of
\* which is below the threshold: the case of the special green check
C21_Witness ==
    /\ pc = "method2"
    /\ MedianCount("darkGreen") > 100
    /\ \E i \in 0..meas.numFrames - 1 :
          /\ BelowThreshold(i, "darkGreen")
          /\ Cardinality(ColorLosses(i, "darkGreen")) = 1

----------------------------------------------------------------------------
(* Properties of Methods 3 and 4 and of the merge, checked under SpecDetect *)

DiffSeries == ToSeq(meas.consecutiveDiffs, meas.numFrames - 1)
Interior(i) == 0 < i /\ i < meas.numFrames - 1
Has(i, t) == HasType(Got(anoms, i), t)

\* twice the average of the two pixel differences of frame i is above twice
\* max(2.5 * medianDiff, pixelDiffThreshold), the median found by counting
AboveDiffBound(i) ==
    meas.consecutiveDiffs[i - 1] + meas.consecutiveDiffs[i]
        > Max2(5 * NearestRank(DiffSeries, Len(DiffSeries) \div 2),
               2 * EffectiveOptions(opts).pixelDiffThreshold)

MethodOf(t) ==
    CASE t \in {"color_loss", "green_washout"} -> 1
      [] t \in {"transparency_hole", "extra_opacity", "halo_effect"} -> 2
      [] t = "structural_damage" -> 3
      [] t = "pixel_outlier" -> 4

InMethodOrder(list) ==
    \A k, l \in 1..Len(list) : k < l => MethodOf(list[k].type) <= MethodOf(list[l].type)

\* every list of anomalies is kept, and at most extended at its end
AnomaliesKept ==
    \A i \in DOMAIN anoms : i \in DOMAIN anoms' /\ IsPrefix(anoms[i], anoms'[i])

\* C23: no method removes or overwrites an anomaly a previous method has
\* attached; the bad frames are the frames with at least one anomaly, and the
\* reasons of a record are all the anomalies of its frame, in the order of the
\* methods 1, 2, 3, 4.
C23_Additive ==
    /\ [][AnomaliesKept]_vars
    /\ [](Detected =>
            /\ \A i \in 0..meas.numFrames - 1 : i \in BadSet <=> Got(anoms, i) # << >>
            /\ \A b \in Records : b.reasons = anoms[b.index] /\ InMethodOrder(b.reasons))

\* one frame has reasons of Methods 1, 2 and 4 and another one of Method 3
C23_Witness ==
    /\ Detected
    /\ \E b, c \in Records :
          /\ HasType(b.reasons, "color_loss")
          /\ HasType(b.reasons, "transparency_hole")
          /\ HasType(b.reasons, "pixel_outlier")
          /\ HasType(c.reasons, "structural_damage")

HasSevere(list) == \E k \in 1..Len(list) : list[k].severity = "severe"

\* C24: a record is severe exactly when one of its reasons is severe, and
\* moderate otherwise.
C24_Severity ==
    Detected =>
        \A b \in Records :
            /\ b.severity \in {"severe", "moderate"}
            /\ b.severity = "severe" <=> HasSevere(b.reasons)

\* a severe record whose first reason is moderate and whose second is severe
C24_Witness ==
    /\ Detected
    /\ \E b \in Records :
          /\ Len(b.reasons) >= 2
          /\ b.reasons[1].severity = "moderate"
          /\ b.reasons[2].severity = "severe"
          /\ b.severity = "severe"

\* a record with nothing but moderate reasons is moderate
C24_ModerateSeen ==
    Detected /\ \E b \in Records : ~ HasSevere(b.reasons) /\ b.severity = "moderate"

\* both SSIM scores of frame i are far below the threshold of the options
LowOnBothSides(i) ==
    /\ Interior(i)
    /\ meas.adjacentSSIM[i - 1] = 100
    /\ meas.adjacentSSIM[i] = 100

\* C27: in a sequence of fewer than 9 frames Method 3 flags no frame as
\* structural_damage, whatever the SSIM scores are.
C27_NoDamageBelowNine ==
    (pc \in {"method4", "resolve", "detected"} /\ meas.numFrames < 9) =>
        \A i \in 0..meas.numFrames - 1 : ~ Has(i, "structural_damage")

\* Method 3 has run on 8 frames and has passed over a frame with two low scores
C27_Witness ==
    /\ pc = "method4"
    /\ meas.numFrames = 8
    /\ \E i \in 0..meas.numFrames - 1 : LowOnBothSides(i) /\ ~ Has(i, "structural_damage")

\* with 9 frames the same frame is flagged
C27_NineSeen ==
    /\ pc = "method4"
    /\ meas.numFrames = 9
    /\ \E i \in 0..meas.numFrames - 1 : LowOnBothSides(i) /\ Has(i, "structural_damage")

----------------------------------------------------------------------------
(* analyzePixels: the colours and the alpha of one raw RGBA buffer *)

MaxPixels == 2

Pixel(r, g, b, a) == [r |-> r, g |-> g, b |-> b, a |-> a]

Abs(x) == IF x < 0 THEN 0 - x ELSE x

\* the three colour rules, in the order of the if / else if chain
isDarkGreen(p) ==
    p.g > p.r /\ p.g > p.b /\ p.g > 80 /\ p.g < 180 /\ p.r < 130 /\ p.b < 110
isBrown(p) ==
    /\ p.r > 70 /\ p.r < 190 /\ p.g > 50 /\ p.g < 150 /\ p.b > 30 /\ p.b < 130
    /\ Abs(p.r - p.g) < 60
isDark(p) == p.r < 90 /\ p.g < 90 /\ p.b < 90

\* the colour analysis skips the pixels of alpha 128 and below
SkippedUpTo128(p) == p.a <= 128

\* if (a < 128) continue;
Skipped(p) == p.a < 128

\* the bucket the chain increments for a pixel that is not skipped
Bucket(p) ==
    IF isDarkGreen(p) THEN "darkGreen"
    ELSE IF isBrown(p) THEN "brown"
    ELSE IF isDark(p) THEN "darkPixels"
    ELSE "other"

NoCounts ==
    [colors |-> [darkGreen |-> 0, brown |-> 0, darkPixels |-> 0, other |-> 0],
     alpha  |-> [opaque |-> 0, semiTrans |-> 0, transparent |-> 0]]

\* one turn of the loop over the buffer
Tally(acc, p) ==
    LET kind  == IF p.a > 250 THEN "opaque"
                 ELSE IF p.a > 5 THEN "semiTrans" ELSE "transparent"
        alpha == [acc.alpha EXCEPT ![kind] = @ + 1]
    IN IF Skipped(p)
       THEN [acc EXCEPT !.alpha = alpha]
       ELSE [colors |-> [acc.colors EXCEPT ![Bucket(p)] = @ + 1], alpha |-> alpha]

RECURSIVE Scan(_, _, _)
Scan(data, k, acc) ==
    IF k > Len(data) THEN acc ELSE Scan(data, k + 1, Tally(acc, data[k]))

\* the ratios are kept in thousandths, rounded down
analyzePixels(data, width, height) ==
    LET counts      == Scan(data, 1, NoCounts)
        totalPixels == width * height
    IN [colors |-> counts.colors,
        alpha  |-> [opaqueRatio      |-> (1000 * counts.alpha.opaque) \div totalPixels,
                    semiTransRatio   |-> (1000 * counts.alpha.semiTrans) \div totalPixels,
                    transparentRatio |-> (1000 * counts.alpha.transparent) \div totalPixels]]

\* a colour that passes all three rules, one that is brown and dark, one that
\* is only dark, and one that passes none
Palette == { <<85, 88, 60>>, <<80, 70, 60>>, <<40, 40, 40>>, <<250, 250, 250>> }

\* alpha values on both sides of 5, 128 and 250
PixelAlphas == {0, 6, 127, 128, 129, 251}

Pixels == {Pixel(c[1], c[2], c[3], a) : c \in Palette, a \in PixelAlphas}

\* a decoded frame of one row
InitPixels ==
    /\ \E n \in 1..MaxPixels : input \in [1..n -> Pixels]
    /\ pc = "pixels"
    /\ analysis = Idle
    /\ opts = << >> /\ meas = Idle /\ anoms = << >> /\ det = Idle
    /\ frames = Idle /\ report = Idle /\ result = Idle /\ steps = << >>
    /\ tasks = Idle /\ medianStats = Idle

AnalyzePixels ==
    /\ pc = "pixels"
    /\ analysis' = analyzePixels(input, Len(input), 1)
    /\ pc' = "analyzed"
    /\ UNCHANGED <<input, opts, meas, anoms, det, frames, report, result, steps,
                   tasks, medianStats>>

NextPixels == AnalyzePixels

SpecPixels == InitPixels /\ [][NextPixels]_vars

----------------------------------------------------------------------------
(* Properties of analyzePixels, checked under SpecPixels *)

BucketNames == {"darkGreen", "brown", "darkPixels", "other"}

\* the rules in their order, and the first of them a pixel passes
Rules == << "darkGreen", "brown", "darkPixels" >>
Passes(p, rule) ==
    CASE rule = "darkGreen"  -> isDarkGreen(p)
      [] rule = "brown"      -> isBrown(p)
      [] rule = "darkPixels" -> isDark(p)
FirstMatch(p) ==
    IF \E k \in 1..3 : Passes(p, Rules[k])
    THEN Rules[CHOOSE k \in 1..3 :
                 Passes(p, Rules[k]) /\ \A l \in 1..k-1 : ~ Passes(p, Rules[l])]
    ELSE "other"

PixelsFrom(lowest) == {k \in 1..Len(input) : input[k].a >= lowest}

BucketSum ==
    analysis.colors.darkGreen + analysis.colors.brown
        + analysis.colors.darkPixels + analysis.colors.other

\* C25 as stated: the bucket counts add up to the number of pixels with alpha
\* above 128, and a bucket holds the pixels above 128 whose first rule it is.
C25_AsStated ==
    pc = "analyzed" =>
        /\ BucketSum = Cardinality(PixelsFrom(129))
        /\ \A l \in BucketNames :
              analysis.colors[l] =
                  Cardinality({k \in PixelsFrom(129) : FirstMatch(input[k]) = l})

\* C25: every pixel of alpha 128 or more is counted in exactly one bucket, the
\* one of the first rule it passes in the order darkGreen, brown, darkPixels, or
\* other if it passes none; a pixel of alpha below 128 is counted in no bucket;
\* so the bucket counts add up to the number of pixels of alpha 128 or more.
C25_OneBucketFrom128 ==
    pc = "analyzed" =>
        /\ BucketSum = Cardinality(PixelsFrom(128))
        /\ \A l \in BucketNames :
              analysis.colors[l] =
                  Cardinality({k \in PixelsFrom(128) : FirstMatch(input[k]) = l})

\* a pixel of alpha exactly 128 that passes all three rules has been counted,
\* as darkGreen only, beside a pixel of alpha 127 that has not
C25_Witness ==
    /\ pc = "analyzed"
    /\ \E k, l \in 1..Len(input) :
          /\ input[k].a = 128
          /\ isDarkGreen(input[k]) /\ isBrown(input[k]) /\ isDark(input[k])
          /\ input[l].a = 127
    /\ analysis.colors.darkGreen = 1 /\ BucketSum = 1

----------------------------------------------------------------------------
(* verifyFrames on its own *)

MaxVerifyFrames == 4

\* frames of ten pixels with no, three and four opaque pixels, a frame of five
\* pixels, and a frame of ten pixels in two rows
VerifyImages ==
    { Image(10, 1, {}),
      Image(10, 1, {Block(0, 0, 3, 1, 255)}),
      Image(10, 1, {Block(0, 0, 4, 1, 255)}),
      Image(5, 1, {}),
      Image(5, 2, {Block(0, 0, 1, 2, 255)}) }

InitVerify ==
    /\ \E n \in 1..MaxVerifyFrames : frames \in [0..n-1 -> VerifyImages]
    /\ pc = "verifying"
    /\ report = Idle
    /\ input = Idle /\ opts = << >> /\ meas = Idle /\ anoms = << >> /\ det = Idle
    /\ result = Idle /\ steps = << >>
    /\ tasks = Idle /\ analysis = Idle /\ medianStats = Idle

\* verifyFrames returns its findings, or is left by the exception of pixelmatch
VerifyFrames ==
    /\ pc = "verifying"
    /\ IF VerifyThrows(frames)
       THEN pc' = "rejected" /\ UNCHANGED report
       ELSE pc' = "verified" /\ report' = verifyFrames(frames)
    /\ UNCHANGED <<input, opts, meas, anoms, det, frames, result, steps,
                   tasks, analysis, medianStats>>

NextVerify == VerifyFrames

SpecVerify == InitVerify /\ [][NextVerify]_vars

----------------------------------------------------------------------------
(* Properties of verifyFrames, checked under SpecVerify *)

SameSizes ==
    \A i, j \in DOMAIN frames :
        frames[i].width = frames[j].width /\ frames[i].height = frames[j].height

Issues(text) ==
    IF pc = "verified"
    THEN {k \in 1..Len(report.issues) : report.issues[k] = text}
    ELSE {}

\* the alpha of the pixel at offset k of the raw buffer of an image
RawAlpha(img, k) == AlphaAt(img, k % img.width, k \div img.width)

\* more than 30% of the pixels of frame 0's size differ between frames i and j
FarApart(i, j) ==
    LET total == frames[0].width * frames[0].height
    IN 100 * Cardinality({k \in 0..total - 1 :
                            PixelsDiffer(RawAlpha(frames[i], k), RawAlpha(frames[j], k))})
          > LargeVariance * total

\* the pairs of sampled frames that are far apart: (0, N / 2) and (N / 2, N - 1)
FarPairs ==
    LET n == Count(frames)
    IN IF n > 2
       THEN {k \in 1..2 : IF k = 1 THEN FarApart(0, n \div 2)
                                     ELSE FarApart(n \div 2, n - 1)}
       ELSE {}

\* C26: once verifyFrames has run, a size issue is reported exactly when the
\* frames are not all of one width and height, and there is one large-variance
\* issue for each of the pairs (0, N/2), (N/2, N-1) whose difference ratio is
\* above 0.30, none at all for two frames or fewer.
C26_SizeIssueIffSizesDiffer ==
    pc \in {"verified", "rejected"} =>
        /\ Issues("Inconsistent frame sizes") # {} <=> ~ SameSizes
        /\ pc = "verified" =>
              Cardinality(Issues("Large variance between frames")) = Cardinality(FarPairs)

\* whenever verifyFrames returns, its issues are those the specification names
C26_WhenReturned ==
    pc = "verified" =>
        /\ Issues("Inconsistent frame sizes") # {} <=> ~ SameSizes
        /\ Cardinality(Issues("Large variance between frames")) = Cardinality(FarPairs)
        /\ Len(report.issues) = Cardinality(Issues("Inconsistent frame sizes"))
                                  + Cardinality(Issues("Large variance between frames"))
        /\ report.passed <=> Len(report.issues) = 0

\* verifyFrames has returned with a size issue and with one pair exactly at 0.30
\* unreported beside a pair that is reported
C26_ReturnedSeen ==
    /\ pc = "verified"
    /\ ~ SameSizes
    /\ Cardinality(FarPairs) = 1
    /\ Count(frames) = 4
    /\ frames[0] = Image(10, 1, {Block(0, 0, 3, 1, 255)})
    /\ frames[1] = Image(5, 1, {})
    /\ frames[2] = Image(10, 1, {})

\* verifyFrames has been left by an exception on frames of different sizes
C26_RejectedSeen == pc = "rejected" /\ ~ SameSizes /\ Count(frames) = 3

====
